---- MODULE Spec2Model ----
(***************************************************************************)
(* A model of discord_webhook_client: DiscordClient (client.py) and the    *)
(* DiscordNotification dataclasses (models.py).                            *)
(*                                                                         *)
(* The caller constructs one DiscordClient and one DiscordNotification     *)
(* (Init) and calls notify() with that notification any number of times.   *)
(* A notify() call is one atomic step up to the mode                       *)
(* dispatch (copy, defaults, normalisation, validation, print / bypass),   *)
(* and in URL mode it continues through the loop of _post_with_retry, one  *)
(* step per session.post() and one per time.sleep().  Between notify calls *)
(* the caller may call close(), __enter__() and __exit__().                *)
(*                                                                         *)
(* Spec and FairSpec start from every client and notification of the       *)
(* input sets; BoundarySpec starts from the notifications and defaults at  *)
(* the limits of _validate_payload, RetrySpec from an endpoint that        *)
(* answers 429 with every kind of retry hint.                              *)
(*                                                                         *)
(* Python values are modelled as follows.                                  *)
(*   str        the record [str |-> "..."]                                 *)
(*   None       the record None                                            *)
(*   int, float the record [num |-> n]  (whole seconds, whole colours)     *)
(*   dataclass / dict   a record with the same keys                        *)
(*   list       a sequence                                                 *)
(***************************************************************************)
EXTENDS Integers, Sequences, FiniteSets, TLC

VARIABLES
    args,         \* the arguments DiscordClient(...) was constructed with
    self,         \* the DiscordClient instance's attributes
    data,         \* the caller's DiscordNotification, the argument of every notify call
    payload,      \* notify's local: the working copy being sent
    attempts,     \* _post_with_retry's local
    response,     \* _post_with_retry's local: the response of the last session.post
    retry_after,  \* _post_with_retry's local: the delay about to be slept
    pc,           \* where the client is: "idle", "post" or "sleep"
    outcome,      \* how the current / last notify call ended
    events,       \* the calls made on transport, clock and logger in this notify call, in order
    requests,     \* the requests handed to session.post in this notify call
    logged,       \* the messages handed to logger.info in this notify call
    session_closed,  \* close() has been called on the requests.Session self._session
    closed,       \* close() or __exit__() has been called on the client
    endpoint      \* the responses the webhook endpoint may give to a session.post

vars == <<args, self, data, payload, attempts, response, retry_after, pc,
          outcome, events, requests, logged, session_closed, closed, endpoint>>

----------------------------------------------------------------------------
(* Bounds of the model.                                                    *)

\* max_retries of the constructed client ranges over 0..MaxRetries
MaxRetries == 1
\* a notification carries at most MaxEmbeds embeds
MaxEmbeds == 1

----------------------------------------------------------------------------
(* Python values.                                                          *)

None == [none |-> TRUE]

IsNone(v) == "none" \in DOMAIN v

Str(t) == [str |-> t]

IsStr(v) == "str" \in DOMAIN v

Num(n) == [num |-> n]

IsNum(v) == "num" \in DOMAIN v

\* Python truthiness of a str | None: neither None nor ""
Truthy(s) == IsStr(s) /\ s.str # ""

\* x or y, for a str | None operand x
Or(x, y) == IF Truthy(x) THEN x ELSE y

\* len(s) of a str
StrLen(s) == Len(s.str)

\* the string of n copies of the one-character string c
RECURSIVE Rep(_, _)
Rep(c, n) ==
    IF n = 0 THEN ""
    ELSE IF n % 2 = 1 THEN c \o Rep(c, n - 1)
    ELSE LET h == Rep(c, n \div 2) IN h \o h

----------------------------------------------------------------------------
(* client.py: the Discord webhook constraints.                             *)

MAX_CONTENT_LENGTH == 2000
MAX_USERNAME_LENGTH == 80
MAX_AVATAR_URL_LENGTH == 2048
MAX_EMBEDS == 10
MAX_EMBED_DESCRIPTION == 4096
MAX_EMBED_FIELDS == 25
MAX_FIELD_NAME == 256
MAX_FIELD_VALUE == 1024
\* 0xFFFFFF
MAX_COLOR == 16777215
\* the status _post_with_retry retries on
RATE_LIMITED == 429
\* the delay _get_retry_after_seconds falls back to (1.0)
DEFAULT_RETRY_AFTER == 1
\* the default of the constructor's timeout
DEFAULT_TIMEOUT == 30

----------------------------------------------------------------------------
(* models.py: the dataclasses.                                             *)

DiscordNotificationField(name, value, inline) ==
    [name |-> name, value |-> value, inline |-> inline]

DiscordNotificationEmbed(description, color, fields) ==
    [description |-> description, color |-> color, fields |-> fields]

DiscordNotification(content, username, avatar_url, embeds) ==
    [content |-> content, username |-> username, avatar_url |-> avatar_url,
     embeds |-> embeds]

\* (a faulty variant of FieldAsDict) the inline flag is not copied
FieldAsDictWithoutInline(f) == [name |-> f.name, value |-> f.value, inline |-> FALSE]

\* dataclasses.asdict(data): a fresh dict per dataclass, a fresh list per list
FieldAsDict(f) == [name |-> f.name, value |-> f.value, inline |-> f.inline]

EmbedAsDict(e) ==
    [description |-> e.description, color |-> e.color,
     fields |-> [i \in 1..Len(e.fields) |-> FieldAsDict(e.fields[i])]]

AsDict(d) ==
    [content |-> d.content, username |-> d.username, avatar_url |-> d.avatar_url,
     embeds |-> [i \in 1..Len(d.embeds) |-> EmbedAsDict(d.embeds[i])]]

----------------------------------------------------------------------------
(* client.py: DiscordClient's helpers.                                     *)

\* (a faulty variant of InitUrl) self.url = url: None and "" are not turned into "print"
InitUrlKeepsEmpty(url) == url

\* __init__, line 44: self.url = url or "print"
InitUrl(url) == Or(url, Str("print"))

\* the requests.Session() that __init__ creates (line 50)
OwnSession == [session |-> "own"]

\* a requests.Session the caller made and passed as session=
CallerSession == [session |-> "caller"]

\* __init__: the attributes of the instance constructed with arguments a.
\* (line 50 tests the session argument for truth and line 51 for None; a
\* requests.Session is always true, so the two agree)
Construct(a) ==
    [url |-> InitUrl(a.url),
     default_username |-> a.default_username,
     default_avatar_url |-> a.default_avatar_url,
     wait |-> a.wait,
     timeout |-> a.timeout,
     max_retries |-> a.max_retries,
     session |-> IF IsNone(a.session) THEN OwnSession ELSE a.session,
     owns_session |-> IsNone(a.session)]

\* (a faulty variant of SessionAfterClose) close() closes the session without
\* asking whose it is
SessionAfterCloseAlways(c, was_closed) == TRUE

\* close, lines 65-66: whether self._session is closed after close() on
\* client c, given whether it was closed before
SessionAfterClose(c, was_closed) ==
    IF c.owns_session THEN TRUE ELSE was_closed

\* (a faulty variant of ApplyDefaults) a configured default is written over whatever
\* the notification carries
ApplyDefaultsOverwrites(c, p) ==
    LET p1 == IF Truthy(c.default_username)
              THEN [p EXCEPT !.username = c.default_username]
              ELSE p
    IN  IF Truthy(c.default_avatar_url)
        THEN [p1 EXCEPT !.avatar_url = c.default_avatar_url]
        ELSE p1

\* _apply_defaults, on the payload p of client c
ApplyDefaults(c, p) ==
    LET p1 == IF Truthy(c.default_username) /\ ~Truthy(p.username)
              THEN [p EXCEPT !.username = c.default_username]
              ELSE p
    IN  IF Truthy(c.default_avatar_url) /\ ~Truthy(p1.avatar_url)
        THEN [p1 EXCEPT !.avatar_url = c.default_avatar_url]
        ELSE p1

\* (a faulty variant of NormalizeField) the placeholder is written without the test
\* of the value
NormalizeFieldAlways(f) == [f EXCEPT !.value = Str("-")]

\* _normalize_payload, lines 93-94, on one field
NormalizeField(f) ==
    IF ~Truthy(f.value) THEN [f EXCEPT !.value = Str("-")] ELSE f

\* _normalize_payload
NormalizePayload(p) ==
    [p EXCEPT !.embeds =
        [i \in 1..Len(p.embeds) |->
            [p.embeds[i] EXCEPT !.fields =
                [j \in 1..Len(p.embeds[i].fields) |->
                    NormalizeField(p.embeds[i].fields[j])]]]]

\* _validate_payload returns normally
OK == "ok"

\* the first element of the sequence of results errs that is not OK: the
\* error a loop raising on its first violation ends with
FirstError(errs) ==
    IF \A i \in 1..Len(errs) : errs[i] = OK THEN OK
    ELSE errs[CHOOSE i \in 1..Len(errs) :
                 errs[i] # OK /\ \A j \in 1..(i - 1) : errs[j] = OK]

\* _validate_payload, lines 131-138, on one field
ValidateField(f) ==
    IF ~Truthy(f.name) THEN "Embed field name is required"
    ELSE IF ~Truthy(f.value) THEN "Embed field value is required"
    ELSE IF StrLen(f.name) > MAX_FIELD_NAME
         THEN "Embed field name exceeds Discord limit of 256 characters"
    ELSE IF StrLen(f.value) > MAX_FIELD_VALUE
         THEN "Embed field value exceeds Discord limit of 1024 characters"
    ELSE OK

\* _validate_payload, lines 118-138, on one embed
ValidateEmbed(e) ==
    LET description == Or(e.description, Str(""))
    IN  IF StrLen(description) > MAX_EMBED_DESCRIPTION
        THEN "Embed description exceeds Discord limit of 4096 characters"
        ELSE IF ~IsNone(e.color) /\ ~(0 <= e.color.num /\ e.color.num <= MAX_COLOR)
        THEN "Embed color must be between 0x000000 and 0xFFFFFF"
        ELSE IF Len(e.fields) > MAX_EMBED_FIELDS
        THEN "Discord allows a maximum of 25 embed fields"
        ELSE FirstError([j \in 1..Len(e.fields) |-> ValidateField(e.fields[j])])

\* (a faulty variant of ValidateLimits) a username of exactly the limit is rejected
ValidateLimitsUsernameAtLimit(p) ==
    LET content == Or(p.content, Str(""))
        username == Or(p.username, Str(""))
        avatar_url == Or(p.avatar_url, Str(""))
    IN  IF Truthy(content) /\ StrLen(content) > MAX_CONTENT_LENGTH
        THEN "Content exceeds Discord limit of 2000 characters"
        ELSE IF Truthy(username) /\ StrLen(username) >= MAX_USERNAME_LENGTH
        THEN "Username exceeds Discord limit of 80 characters"
        ELSE IF Truthy(avatar_url) /\ StrLen(avatar_url) > MAX_AVATAR_URL_LENGTH
        THEN "Avatar URL exceeds Discord length limit"
        ELSE IF Len(p.embeds) > MAX_EMBEDS
        THEN "Discord allows a maximum of 10 embeds"
        ELSE FirstError([i \in 1..Len(p.embeds) |-> ValidateEmbed(p.embeds[i])])

\* _validate_payload, lines 103-138: the length, count and range checks
ValidateLimits(p) ==
    LET content == Or(p.content, Str(""))
        username == Or(p.username, Str(""))
        avatar_url == Or(p.avatar_url, Str(""))
    IN  IF Truthy(content) /\ StrLen(content) > MAX_CONTENT_LENGTH
        THEN "Content exceeds Discord limit of 2000 characters"
        ELSE IF Truthy(username) /\ StrLen(username) > MAX_USERNAME_LENGTH
        THEN "Username exceeds Discord limit of 80 characters"
        ELSE IF Truthy(avatar_url) /\ StrLen(avatar_url) > MAX_AVATAR_URL_LENGTH
        THEN "Avatar URL exceeds Discord length limit"
        ELSE IF Len(p.embeds) > MAX_EMBEDS
        THEN "Discord allows a maximum of 10 embeds"
        ELSE FirstError([i \in 1..Len(p.embeds) |-> ValidateEmbed(p.embeds[i])])

\* (a faulty variant of ValidatePayload) the content-or-embeds check is missing
ValidatePayloadSkipsRequired(p) == ValidateLimits(p)

\* _validate_payload: OK, or the message of the ValueError it raises
ValidatePayload(p) ==
    LET content == Or(p.content, Str(""))
    IN  IF ~Truthy(content) /\ Len(p.embeds) = 0
        THEN "Discord notification requires content or embeds"
        ELSE ValidateLimits(p)

----------------------------------------------------------------------------
(* The endpoint's responses, as requests.Response shows them.              *)
(*   body     [kind |-> "notjson"]   response.json() raises                *)
(*            [kind |-> "nondict"]   JSON, but not an object               *)
(*            [kind |-> "dict", retry_after |-> v], v the value of the key:*)
(*               Absent, None (null), Num(n) or Str(t)                     *)
(*   headers  [Retry_After |-> None (no such header) or Str(t)]            *)

Absent == [absent |-> TRUE]

IsAbsent(v) == "absent" \in DOMAIN v

Response(status_code, body, headers) ==
    [status_code |-> status_code, body |-> body, headers |-> headers]

\* the texts float() parses, with their values
FloatTexts == {<<"0", 0>>, <<"1", 1>>, <<"2", 2>>, <<"3", 3>>, <<"-1", -1>>}

\* float(v): [ok |-> TRUE, val |-> the number], or [ok |-> FALSE] when it
\* raises (TypeError for None, ValueError for a text that is no number)
Float(v) ==
    IF IsNum(v) THEN [ok |-> TRUE, val |-> v.num]
    ELSE IF IsStr(v) /\ \E t \in FloatTexts : t[1] = v.str
    THEN [ok |-> TRUE, val |-> (CHOOSE t \in FloatTexts : t[1] = v.str)[2]]
    ELSE [ok |-> FALSE, val |-> 0]

\* _get_retry_after_seconds, lines 163-169: the body's retry_after when
\* the try block returns, [ok |-> FALSE] when it falls through
BodyRetryAfter(r) ==
    IF r.body.kind # "dict" THEN [ok |-> FALSE, val |-> 0]
    ELSE LET v == IF IsAbsent(r.body.retry_after) THEN Num(0)
                  ELSE r.body.retry_after
             f == Float(v)
         IN  IF f.ok /\ f.val > 0 THEN f ELSE [ok |-> FALSE, val |-> 0]

\* (a faulty variant of GetRetryAfterSeconds) the header is asked before the body
GetRetryAfterHeaderFirst(r) ==
    LET b == BodyRetryAfter(r)
        header_retry == r.headers.Retry_After
    IN  IF Truthy(header_retry) /\ Float(header_retry).ok
        THEN Float(header_retry).val
        ELSE IF b.ok THEN b.val
        ELSE DEFAULT_RETRY_AFTER

\* _get_retry_after_seconds
GetRetryAfterSeconds(r) ==
    LET b == BodyRetryAfter(r)
        header_retry == r.headers.Retry_After
    IN  IF b.ok THEN b.val
        ELSE IF Truthy(header_retry) /\ Float(header_retry).ok
        THEN Float(header_retry).val
        ELSE DEFAULT_RETRY_AFTER

\* (a faulty variant of ShouldRetry) one more retry than the code allows
ShouldRetryOnceMore(status_code, n, max_retries) ==
    status_code = RATE_LIMITED /\ n <= max_retries + 2

\* (a faulty variant of ShouldRetry) every error status is retried, not 429 alone
ShouldRetryAnyError(status_code, n, max_retries) ==
    status_code >= 400 /\ n <= max_retries + 1

\* _post_with_retry, line 152: the condition of the retry
ShouldRetry(status_code, n, max_retries) ==
    status_code = RATE_LIMITED /\ n <= max_retries + 1

\* requests' Response.raise_for_status raises HTTPError
RaisesForStatus(status_code) == 400 <= status_code /\ status_code < 600

\* (a faulty variant of Request) the wait parameter is sent only when the flag is set
RequestOmitsFalseWait(c, p) ==
    [url |-> c.url, json |-> p,
     params |-> IF c.wait THEN [wait |-> TRUE] ELSE [k \in {} |-> TRUE],
     timeout |-> c.timeout]

\* _post_with_retry, lines 144-149: the request of one session.post
Request(c, p) ==
    [url |-> c.url, json |-> p, params |-> [wait |-> c.wait],
     timeout |-> c.timeout]

\* (a faulty variant of Mode) the bypass branch is missing
ModeWithoutBypass(c) ==
    IF c.url = Str("print") THEN "print" ELSE "url"

\* notify, lines 74-81: the destination mode of client c
Mode(c) ==
    IF c.url = Str("print") THEN "print"
    ELSE IF c.url = Str("bypass") THEN "bypass"
    ELSE "url"

----------------------------------------------------------------------------
(* How a notify call ends.                                                 *)

NoCall == [kind |-> "NoCall", exc |-> "", msg |-> "", status_code |-> 0]

Running == [kind |-> "Running", exc |-> "", msg |-> "", status_code |-> 0]

\* return None
ReturnNone == [kind |-> "ReturnNone", exc |-> "", msg |-> "", status_code |-> 0]

\* return response
ReturnResponse(r) ==
    [kind |-> "ReturnResponse", exc |-> "", msg |-> "",
     status_code |-> r.status_code]

\* an exception leaves notify
Raise(exc, msg, status_code) ==
    [kind |-> "Raise", exc |-> exc, msg |-> msg, status_code |-> status_code]

\* the message of the ValueError time.sleep raises on a negative argument
SleepError == "sleep length must be non-negative"

NoResponse == Response(0, [kind |-> "notjson"], [Retry_After |-> None])

----------------------------------------------------------------------------
(* The inputs: constructor arguments, notifications and responses.         *)

WebhookUrl == "https://example.com/webhook"

UrlArgs == {None, Str(""), Str("print"), Str("bypass"), Str(WebhookUrl)}

DefaultUsernames == {None, Str("bot")}

DefaultAvatarUrls == {None, Str("icon")}

ConstructorArgs ==
    [url : UrlArgs,
     default_username : DefaultUsernames,
     default_avatar_url : DefaultAvatarUrls,
     wait : BOOLEAN,
     timeout : {DEFAULT_TIMEOUT},
     max_retries : 0..MaxRetries,
     session : {None, CallerSession}]

Contents == {None, Str(""), Str("hi")}

Usernames == {None, Str(""), Str("bob")}

AvatarUrls == {None, Str("pic")}

\* the field lists of the embeds: three fields of which the second has no
\* value and the third an empty one, and one field with no name
FieldLists ==
    {<<DiscordNotificationField(Str("Name"), Str("v"), TRUE),
       DiscordNotificationField(Str("Key"), None, FALSE),
       DiscordNotificationField(Str("ID"), Str(""), FALSE)>>,
     <<DiscordNotificationField(None, Str("v"), FALSE)>>}

\* 0xFF0000
Red == 16711680

Embeds ==
    {DiscordNotificationEmbed(None, Num(Red), fl) : fl \in FieldLists}

\* the sequences over S of length at most n
SeqUpTo(S, n) == UNION {[1..k -> S] : k \in 0..n}

Notifications ==
    {DiscordNotification(c, u, a, es) :
        c \in Contents, u \in Usernames, a \in AvatarUrls,
        es \in SeqUpTo(Embeds, MaxEmbeds)}

\* the statuses of the responses that carry no retry hint
PlainStatuses == {102, 204, 304, 400, 500}

\* the 429 responses: retry_after 0 and no header, retry_after 2, and
\* retry_after 0 with the header "3" and with the header "-1"
RateLimitResponses ==
    {Response(RATE_LIMITED, [kind |-> "dict", retry_after |-> Num(0)], [Retry_After |-> None]),
     Response(RATE_LIMITED, [kind |-> "dict", retry_after |-> Num(2)], [Retry_After |-> None]),
     Response(RATE_LIMITED, [kind |-> "dict", retry_after |-> Num(0)], [Retry_After |-> Str("3")]),
     Response(RATE_LIMITED, [kind |-> "dict", retry_after |-> Num(0)], [Retry_After |-> Str("-1")])}

Responses ==
    {Response(st, [kind |-> "dict", retry_after |-> Absent], [Retry_After |-> None]) :
        st \in PlainStatuses}
    \cup RateLimitResponses

\* the bodies a 429 response may carry: no JSON, JSON that is no object, and
\* an object without retry_after or with null, 0, 2, -1, "abc" or "2"
RetryBodies ==
    {[kind |-> "notjson"], [kind |-> "nondict"]}
    \cup {[kind |-> "dict", retry_after |-> v] :
             v \in {Absent, None, Num(0), Num(2), Num(-1), Str("abc"), Str("2")}}

\* its Retry-After header: none, empty, "3", "abc" or "-1"
RetryHeaders ==
    {[Retry_After |-> h] : h \in {None, Str(""), Str("3"), Str("abc"), Str("-1")}}

\* an endpoint that answers 204 or 429 with any of these bodies and headers
RetryResponses ==
    {Response(204, [kind |-> "notjson"], [Retry_After |-> None])}
    \cup {Response(RATE_LIMITED, b, h) : b \in RetryBodies, h \in RetryHeaders}

\* the clients that post to it
RetryArgs ==
    {a \in ConstructorArgs :
        /\ a.url = Str(WebhookUrl)
        /\ a.default_username = None
        /\ a.default_avatar_url = None
        /\ a.wait}

\* a notification with content only, an embed without fields and a field
PlainNotification == DiscordNotification(Str("hi"), None, None, <<>>)

PlainEmbed == DiscordNotificationEmbed(None, None, <<>>)

PlainField == DiscordNotificationField(Str("n"), Str("v"), FALSE)

\* the notification with the one embed e
WithEmbed(e) == [PlainNotification EXCEPT !.embeds = <<e>>]

\* the notification with one embed with the one field f
WithField(f) == WithEmbed([PlainEmbed EXCEPT !.fields = <<f>>])

\* the notifications that sit d past a limit of _validate_payload and
\* violate no other: d = 0 is exactly at the limit, d = 1 one past it
\* (for the colour: d below 0 and d above 0xFFFFFF)
AtLimitPlus(d) ==
    {[PlainNotification EXCEPT !.content = Str(Rep("c", MAX_CONTENT_LENGTH + d))],
     [PlainNotification EXCEPT !.username = Str(Rep("u", MAX_USERNAME_LENGTH + d))],
     [PlainNotification EXCEPT !.avatar_url = Str(Rep("a", MAX_AVATAR_URL_LENGTH + d))],
     [PlainNotification EXCEPT !.embeds = [i \in 1..(MAX_EMBEDS + d) |-> PlainEmbed]],
     WithEmbed([PlainEmbed EXCEPT !.description = Str(Rep("d", MAX_EMBED_DESCRIPTION + d))]),
     WithEmbed([PlainEmbed EXCEPT !.color = Num(0 - d)]),
     WithEmbed([PlainEmbed EXCEPT !.color = Num(MAX_COLOR + d)]),
     WithEmbed([PlainEmbed EXCEPT !.fields = [j \in 1..(MAX_EMBED_FIELDS + d) |-> PlainField]]),
     WithField([PlainField EXCEPT !.name = Str(Rep("n", MAX_FIELD_NAME + d))]),
     WithField([PlainField EXCEPT !.value = Str(Rep("v", MAX_FIELD_VALUE + d))])}

BoundaryNotifications == AtLimitPlus(0) \cup AtLimitPlus(1)

\* the clients the boundary notifications are sent with: print mode and a
\* URL, each default either not configured or one past the limit of the
\* key it fills
BoundaryArgs ==
    [url : {Str("print"), Str(WebhookUrl)},
     default_username : {None, Str(Rep("U", MAX_USERNAME_LENGTH + 1))},
     default_avatar_url : {None, Str(Rep("A", MAX_AVATAR_URL_LENGTH + 1))},
     wait : {TRUE},
     timeout : {DEFAULT_TIMEOUT},
     max_retries : 0..MaxRetries,
     session : {None, CallerSession}]

----------------------------------------------------------------------------
(* The state machine.                                                      *)

\* no payload yet: notify's local before the first call
NoPayload == AsDict(DiscordNotification(None, None, None, <<>>))

\* DiscordClient(...) and DiscordNotification(...): the client and the
\* notification have been constructed, notify not yet called
Init ==
    /\ args \in ConstructorArgs
    /\ self = Construct(args)
    /\ data \in Notifications
    /\ payload = NoPayload
    /\ attempts = 0
    /\ response = NoResponse
    /\ retry_after = 0
    /\ pc = "idle"
    /\ outcome = NoCall
    /\ events = <<>>
    /\ requests = <<>>
    /\ logged = <<>>
    /\ session_closed = FALSE
    /\ closed = FALSE
    /\ endpoint = Responses

\* (a faulty variant of NotificationAfter) the payload is built from the
\* notification's own attribute dict and lists, so that the defaults and the
\* placeholders notify writes land in the caller's notification
NotificationAfterShared(d, p) ==
    DiscordNotification(p.content, p.username, p.avatar_url, p.embeds)

\* notify, line 69: the caller's notification d after a notify call that
\* prepared the payload p.  asdict copies recursively (a new dict per
\* dataclass, a new list per list), so the writes of _apply_defaults and
\* _normalize_payload (lines 86, 88, 94) go to the copy and d is as it was.
NotificationAfter(d, p) == d

\* a client and a notification at or one past a limit of _validate_payload
InitBoundary ==
    /\ args \in BoundaryArgs
    /\ self = Construct(args)
    /\ data \in BoundaryNotifications
    /\ payload = NoPayload
    /\ attempts = 0
    /\ response = NoResponse
    /\ retry_after = 0
    /\ pc = "idle"
    /\ outcome = NoCall
    /\ events = <<>>
    /\ requests = <<>>
    /\ logged = <<>>
    /\ session_closed = FALSE
    /\ closed = FALSE
    /\ endpoint = Responses

\* a client that posts a plain notification to the rate-limiting endpoint
InitRetry ==
    /\ args \in RetryArgs
    /\ self = Construct(args)
    /\ data = PlainNotification
    /\ payload = NoPayload
    /\ attempts = 0
    /\ response = NoResponse
    /\ retry_after = 0
    /\ pc = "idle"
    /\ outcome = NoCall
    /\ events = <<>>
    /\ requests = <<>>
    /\ logged = <<>>
    /\ session_closed = FALSE
    /\ closed = FALSE
    /\ endpoint = RetryResponses

\* (a faulty variant of PreparePayload) the payload is validated as the defaults left
\* it, without the placeholders of _normalize_payload
PreparePayloadWithoutNormalize(c, d) == ApplyDefaults(c, AsDict(d))

\* notify, lines 69-72: the payload notify validates and dispatches
PreparePayload(c, d) == NormalizePayload(ApplyDefaults(c, AsDict(d)))

\* (a faulty variant of Notify) print mode logs the payload before it is validated
NotifyLogsBeforeValidating ==
    /\ pc = "idle"
    /\ LET p == PreparePayload(self, data)
           err == ValidatePayload(p)
       IN  /\ data' = NotificationAfter(data, p)
           /\ payload' = p
           /\ attempts' = 0
           /\ response' = NoResponse
           /\ retry_after' = 0
           /\ requests' = <<>>
           /\ IF Mode(self) = "print"
              THEN /\ outcome' = IF err # OK THEN Raise("ValueError", err, 0)
                                 ELSE ReturnNone
                   /\ pc' = "idle"
                   /\ events' = <<"log">>
                   /\ logged' = <<p>>
              ELSE IF err # OK
              THEN /\ outcome' = Raise("ValueError", err, 0)
                   /\ pc' = "idle"
                   /\ events' = <<>>
                   /\ logged' = <<>>
              ELSE IF Mode(self) = "bypass"
              THEN /\ outcome' = ReturnNone
                   /\ pc' = "idle"
                   /\ events' = <<>>
                   /\ logged' = <<>>
              ELSE /\ outcome' = Running
                   /\ pc' = "post"
                   /\ events' = <<>>
                   /\ logged' = <<>>
    /\ UNCHANGED <<args, self, session_closed, closed, endpoint>>

\* (a faulty variant of Notify) the attempt counter lives on from call to call
NotifyKeepsAttempts ==
    /\ pc = "idle"
    /\ LET p == PreparePayload(self, data)
           err == ValidatePayload(p)
       IN  /\ data' = NotificationAfter(data, p)
           /\ payload' = p
           /\ attempts' = attempts
           /\ response' = NoResponse
           /\ retry_after' = 0
           /\ requests' = <<>>
           /\ IF err # OK
              THEN /\ outcome' = Raise("ValueError", err, 0)
                   /\ pc' = "idle"
                   /\ events' = <<>>
                   /\ logged' = <<>>
              ELSE IF Mode(self) = "print"
              THEN /\ outcome' = ReturnNone
                   /\ pc' = "idle"
                   /\ events' = <<"log">>
                   /\ logged' = <<p>>
              ELSE IF Mode(self) = "bypass"
              THEN /\ outcome' = ReturnNone
                   /\ pc' = "idle"
                   /\ events' = <<>>
                   /\ logged' = <<>>
              ELSE /\ outcome' = Running
                   /\ pc' = "post"
                   /\ events' = <<>>
                   /\ logged' = <<>>
    /\ UNCHANGED <<args, self, session_closed, closed, endpoint>>

\* (a faulty variant of Notify) the payload is validated before the defaults are
\* filled in
NotifyValidatesBeforeDefaults ==
    /\ pc = "idle"
    /\ LET p == PreparePayload(self, data)
           err == ValidatePayload(NormalizePayload(AsDict(data)))
       IN  /\ data' = NotificationAfter(data, p)
           /\ payload' = p
           /\ attempts' = 0
           /\ response' = NoResponse
           /\ retry_after' = 0
           /\ requests' = <<>>
           /\ IF err # OK
              THEN /\ outcome' = Raise("ValueError", err, 0)
                   /\ pc' = "idle"
                   /\ events' = <<>>
                   /\ logged' = <<>>
              ELSE IF Mode(self) = "print"
              THEN /\ outcome' = ReturnNone
                   /\ pc' = "idle"
                   /\ events' = <<"log">>
                   /\ logged' = <<p>>
              ELSE IF Mode(self) = "bypass"
              THEN /\ outcome' = ReturnNone
                   /\ pc' = "idle"
                   /\ events' = <<>>
                   /\ logged' = <<>>
              ELSE /\ outcome' = Running
                   /\ pc' = "post"
                   /\ events' = <<>>
                   /\ logged' = <<>>
    /\ UNCHANGED <<args, self, session_closed, closed, endpoint>>

\* notify(data), lines 69-81, up to the call of _post_with_retry
Notify ==
    /\ pc = "idle"
    /\ LET p == PreparePayload(self, data)
           err == ValidatePayload(p)
       IN  /\ data' = NotificationAfter(data, p)
           /\ payload' = p
           /\ attempts' = 0
           /\ response' = NoResponse
           /\ retry_after' = 0
           /\ requests' = <<>>
           /\ IF err # OK
              THEN /\ outcome' = Raise("ValueError", err, 0)
                   /\ pc' = "idle"
                   /\ events' = <<>>
                   /\ logged' = <<>>
              ELSE IF Mode(self) = "print"
              THEN /\ outcome' = ReturnNone
                   /\ pc' = "idle"
                   /\ events' = <<"log">>
                   /\ logged' = <<p>>
              ELSE IF Mode(self) = "bypass"
              THEN /\ outcome' = ReturnNone
                   /\ pc' = "idle"
                   /\ events' = <<>>
                   /\ logged' = <<>>
              ELSE /\ outcome' = Running
                   /\ pc' = "post"
                   /\ events' = <<>>
                   /\ logged' = <<>>
    /\ UNCHANGED <<args, self, session_closed, closed, endpoint>>

\* (a faulty variant of RetryStep) the loop continues without sleeping
RetryStepWithoutSleep == "post"

\* _post_with_retry, line 155: where the loop goes on a retried 429
RetryStep == "sleep"

\* _post_with_retry, lines 143-159: one session.post that answers r
Post(r) ==
    /\ pc = "post"
    /\ attempts' = attempts + 1
    /\ events' = Append(events, "post")
    /\ requests' = Append(requests, Request(self, payload))
    /\ response' = r
    /\ IF ShouldRetry(r.status_code, attempts', self.max_retries)
       THEN /\ retry_after' = GetRetryAfterSeconds(r)
            /\ pc' = RetryStep
            /\ outcome' = outcome
       ELSE /\ retry_after' = retry_after
            /\ pc' = "idle"
            /\ outcome' = IF RaisesForStatus(r.status_code)
                          THEN Raise("HTTPError", "", r.status_code)
                          ELSE ReturnResponse(r)
    /\ UNCHANGED <<args, self, data, payload, logged,
                 session_closed, closed, endpoint>>

\* (a faulty variant of PostFails) the exception of session.post is caught and the
\* request is sent again after the default delay while the retry budget lasts
PostFailsRetried ==
    /\ pc = "post"
    /\ attempts' = attempts + 1
    /\ events' = Append(events, "post")
    /\ requests' = Append(requests, Request(self, payload))
    /\ IF attempts' <= self.max_retries + 1
       THEN /\ outcome' = outcome
            /\ retry_after' = DEFAULT_RETRY_AFTER
            /\ pc' = "sleep"
       ELSE /\ outcome' = Raise("RequestException", "", 0)
            /\ retry_after' = retry_after
            /\ pc' = "idle"
    /\ UNCHANGED <<args, self, data, payload, response, logged,
                 session_closed, closed, endpoint>>

\* _post_with_retry, lines 143-149: one session.post that raises (no
\* connection, timeout); nothing in notify catches it
PostFails ==
    /\ pc = "post"
    /\ attempts' = attempts + 1
    /\ events' = Append(events, "post")
    /\ requests' = Append(requests, Request(self, payload))
    /\ outcome' = Raise("RequestException", "", 0)
    /\ pc' = "idle"
    /\ UNCHANGED <<args, self, data, payload, response, retry_after, logged,
                 session_closed, closed, endpoint>>

\* _post_with_retry, lines 155-156: time.sleep(retry_after), which raises
\* ValueError on a negative argument, and continue.  After the sleep the
\* locals response and retry_after are dead (both are assigned again, lines
\* 144 and 153, before they are read), and the model forgets them.
Sleep ==
    /\ pc = "sleep"
    /\ events' = Append(events, "sleep")
    /\ IF retry_after < 0
       THEN /\ outcome' = Raise("ValueError", SleepError, 0)
            /\ pc' = "idle"
            /\ UNCHANGED <<response, retry_after>>
       ELSE /\ outcome' = outcome
            /\ pc' = "post"
            /\ response' = NoResponse
            /\ retry_after' = 0
    /\ UNCHANGED <<args, self, data, payload, attempts, requests, logged,
                 session_closed, closed, endpoint>>

\* __enter__, lines 53-54: returns self and changes nothing
Enter ==
    /\ pc = "idle"
    /\ UNCHANGED vars

\* close(), lines 64-66, called by the caller between notify calls
Close ==
    /\ pc = "idle"
    /\ session_closed' = SessionAfterClose(self, session_closed)
    /\ closed' = TRUE
    /\ UNCHANGED <<args, self, data, payload, attempts, response, retry_after,
                   pc, outcome, events, requests, logged, endpoint>>

\* __exit__(exc_type, exc, tb), lines 56-62: the with block is left, normally
\* or by the exception of a notify call; __exit__ does not look at its
\* arguments, calls close() and returns None
Exit ==
    /\ pc = "idle"
    /\ session_closed' = SessionAfterClose(self, session_closed)
    /\ closed' = TRUE
    /\ UNCHANGED <<args, self, data, payload, attempts, response, retry_after,
                   pc, outcome, events, requests, logged, endpoint>>

Next ==
    \/ Notify
    \/ \E r \in endpoint : Post(r)
    \/ PostFails
    \/ Sleep
    \/ Enter
    \/ Close
    \/ Exit

Spec == Init /\ [][Next]_vars

\* the same client called with the notifications at the limits of validation
BoundarySpec == InitBoundary /\ [][Next]_vars

\* the same client against an endpoint with every kind of retry hint
RetrySpec == InitRetry /\ [][Next]_vars

\* a notify call in progress goes on: session.post returns or raises (it is
\* given a timeout) and time.sleep returns
FairSpec ==
    Spec /\ WF_vars((\E r \in endpoint : Post(r)) \/ PostFails) /\ WF_vars(Sleep)

----------------------------------------------------------------------------
(* What the properties speak of.                                           *)

\* the number of calls of op among the events of the notify call
Count(op) == Cardinality({i \in 1..Len(events) : events[i] = op})

Posts == Count("post")

Sleeps == Count("sleep")

\* a notify call has been made and has ended
Ended == pc = "idle" /\ outcome.kind # "NoCall"

\* the notify call ended with the ValueError of _validate_payload
ValidationFailed ==
    /\ Ended
    /\ outcome.kind = "Raise"
    /\ outcome.exc = "ValueError"
    /\ outcome.msg # SleepError

\* the notify call ended with the HTTP delivery error
HTTPErrorRaised == Ended /\ outcome.kind = "Raise" /\ outcome.exc = "HTTPError"

\* the notify call returned a response
ResponseReturned == Ended /\ outcome.kind = "ReturnResponse"

\* the payloads that reached the transport or the logger in the notify call
Emitted ==
    {requests[i].json : i \in 1..Len(requests)} \cup {logged[i] : i \in 1..Len(logged)}

\* the caller's notification has no content and no embeds
EmptyNotification == ~Truthy(data.content) /\ Len(data.embeds) = 0

\* the caller's notification passes validation on this client
ValidNotification == ValidatePayload(PreparePayload(self, data)) = OK

----------------------------------------------------------------------------
(* The properties.                                                         *)

\* C1: a notify call with a notification that has no content and no embeds
\* ends with the ValueError "requires content or embeds", whatever the
\* destination the client was constructed with (None, "", "print", "bypass"
\* or a URL).
C1_EmptyNotificationRaises ==
    (Ended /\ EmptyNotification) =>
        outcome = Raise("ValueError", "Discord notification requires content or embeds", 0)

\* C1 happens: a client constructed with url None has rejected an empty notification
C1_Witness ==
    /\ args.url = None
    /\ Ended
    /\ EmptyNotification
    /\ ValidationFailed

\* C2: a notify call that ends with the validation error has called neither
\* session.post nor time.sleep nor logger.info.
C2_ValidationPrecedesDispatch ==
    ValidationFailed => (events = <<>> /\ requests = <<>> /\ logged = <<>>)

\* C2 happens: a print-mode client has rejected a notification that is not
\* empty (its field has no name)
C2_Witness ==
    /\ ValidationFailed
    /\ self.url = Str("print")
    /\ outcome.msg = "Embed field name is required"

\* C3: on a client whose url is "bypass", session.post and time.sleep are
\* never called and nothing is logged, no notify call is ever in progress,
\* and a notify call with a valid notification returns None.
C3_BypassNeverPosts ==
    self.url = Str("bypass") =>
        /\ events = <<>>
        /\ requests = <<>>
        /\ logged = <<>>
        /\ pc = "idle"
        /\ attempts = 0
        /\ (Ended /\ ValidNotification) => outcome = ReturnNone

\* C3 happens: a bypass client has returned None for a valid notification
C3_Witness ==
    /\ self.url = Str("bypass")
    /\ Ended
    /\ ValidNotification
    /\ outcome = ReturnNone

\* C4: on a client constructed with url "print", None or "", a notify call
\* with a valid notification logs the defaulted and normalized payload
\* exactly once, calls session.post never and returns None; with an invalid
\* notification it raises the validation error and logs nothing.
C4_PrintLogsOnce ==
    args.url \in {None, Str(""), Str("print")} =>
        /\ requests = <<>>
        /\ pc = "idle"
        /\ Posts = 0
        /\ Ended =>
              IF ValidNotification
              THEN /\ outcome = ReturnNone
                   /\ logged = <<PreparePayload(self, data)>>
                   /\ events = <<"log">>
              ELSE /\ ValidationFailed
                   /\ logged = <<>>
                   /\ events = <<>>

\* C4 happens: a client constructed with url None has logged a payload whose
\* username was filled in and whose field value was normalized
C4_Witness ==
    /\ args.url = None
    /\ Ended
    /\ Len(logged) = 1
    /\ logged[1] # AsDict(data)

\* C5: in every payload sent or logged, username (avatar_url) is the
\* notification's own value when that is non-empty, and the configured
\* (non-empty) default when the notification's value is None or "".
C5_DefaultsFillOnlyUnset ==
    \A p \in Emitted :
        /\ Truthy(data.username) => p.username = data.username
        /\ (~Truthy(data.username) /\ Truthy(self.default_username)) =>
                p.username = self.default_username
        /\ Truthy(data.avatar_url) => p.avatar_url = data.avatar_url
        /\ (~Truthy(data.avatar_url) /\ Truthy(self.default_avatar_url)) =>
                p.avatar_url = self.default_avatar_url

\* C5 happens: a payload has been sent whose username came from the default
\* and whose avatar_url is the notification's own, although a default
\* avatar URL is configured
C5_Witness ==
    /\ requests # <<>>
    /\ ~Truthy(data.username)
    /\ Truthy(self.default_username)
    /\ Truthy(data.avatar_url)
    /\ Truthy(self.default_avatar_url)

\* C6: in every payload sent or logged, the embeds and their fields are
\* those of the notification, in order, and each field's value is "-" when
\* the notification's value is None or "", and the notification's value
\* otherwise.
C6_EmptyFieldValueIsDash ==
    \A p \in Emitted :
        /\ Len(p.embeds) = Len(data.embeds)
        /\ \A i \in 1..Len(data.embeds) :
              /\ Len(p.embeds[i].fields) = Len(data.embeds[i].fields)
              /\ \A j \in 1..Len(data.embeds[i].fields) :
                    p.embeds[i].fields[j].value =
                        IF Truthy(data.embeds[i].fields[j].value)
                        THEN data.embeds[i].fields[j].value
                        ELSE Str("-")

\* C6 happens: a payload has been sent for a notification with a field
\* without a value and a field with one
C6_Witness ==
    /\ requests # <<>>
    /\ \E i \in 1..Len(data.embeds) :
          \E j, k \in 1..Len(data.embeds[i].fields) :
              /\ ~Truthy(data.embeds[i].fields[j].value)
              /\ Truthy(data.embeds[i].fields[k].value)

\* C7: in a notify call, every time.sleep directly follows a session.post
\* that was answered 429, every session.post but the first directly follows
\* a time.sleep, and a call that ends by returning a response or raising
\* the HTTP delivery error has slept once less than it has posted.
C7_OneSleepBeforeEachResend ==
    /\ \A i \in 1..Len(events) :
          /\ events[i] = "sleep" => (i > 1 /\ events[i - 1] = "post")
          /\ (events[i] = "post" /\ i > 1) => events[i - 1] = "sleep"
    /\ pc = "sleep" =>
          /\ response.status_code = RATE_LIMITED
          /\ events # <<>>
          /\ events[Len(events)] = "post"
    /\ (ResponseReturned \/ HTTPErrorRaised) =>
          /\ Sleeps = Posts - 1
          /\ events[Len(events)] = "post"

\* C7 happens: with max_retries = 1, a call has posted, slept once, posted
\* again and returned the 204 response
C7_Witness ==
    /\ self.max_retries = 1
    /\ events = <<"post", "sleep", "post">>
    /\ outcome.kind = "ReturnResponse"
    /\ outcome.status_code = 204

\* C8: a notify call posts at most max_retries + 1 times and sleeps at most
\* max_retries times.
C8_AtMostMaxRetriesResends ==
    /\ Posts <= self.max_retries + 1
    /\ Sleeps <= self.max_retries

\* the steps a notify call in progress has left at most: two per attempt
\* that may still be made, one more while it is about to sleep
StepsLeft ==
    2 * (self.max_retries + 2 - attempts) + (IF pc = "sleep" THEN 1 ELSE 0)

\* C9, in every state: the attempts never exceed max_retries + 2; a 429 is
\* retried only while the attempts do not exceed max_retries + 1; a call
\* whose last response is a 429 received after that raises the HTTP
\* delivery error with status 429.
C9_BudgetInvariant ==
    /\ attempts <= self.max_retries + 2
    /\ StepsLeft >= 0
    /\ pc = "sleep" =>
          (response.status_code = RATE_LIMITED /\ attempts <= self.max_retries + 1)
    /\ ((ResponseReturned \/ HTTPErrorRaised) /\ response.status_code = RATE_LIMITED) =>
          /\ attempts = self.max_retries + 2
          /\ outcome = Raise("HTTPError", "", RATE_LIMITED)

\* C9: the retry budget is finite and ends in the HTTP delivery error (the
\* invariant above), every step of a notify call in progress lowers the
\* number of steps it has left, and so every notify call ends.
C9_RetryBudgetEnds ==
    /\ []C9_BudgetInvariant
    /\ [][pc # "idle" => StepsLeft' < StepsLeft]_vars
    /\ (pc # "idle") ~> (pc = "idle")

\* C9 happens: with every request answered 429, the call has used its whole
\* budget and raised the HTTP delivery error
C9_Witness ==
    /\ HTTPErrorRaised
    /\ outcome.status_code = RATE_LIMITED
    /\ attempts = self.max_retries + 2
    /\ Sleeps = self.max_retries + 1

\* C10: notify returns a response only when its status is 2xx.
C10_ReturnsOnly2xx ==
    ResponseReturned => (200 <= outcome.status_code /\ outcome.status_code <= 299)

\* the last response is an error response (4xx or 5xx) other than the 429
ErrorResponseReceived ==
    /\ 400 <= response.status_code
    /\ response.status_code < 600
    /\ response.status_code # RATE_LIMITED

\* C11: a response with status 400, or any error status other than 429, is
\* not retried: the notify call has ended with the HTTP delivery error of
\* that status, the session.post that received it is the last call of the
\* notify call (no time.sleep and no session.post follow it), and the call
\* has slept only before its resends; this holds whatever is left of the
\* retry budget, also after earlier 429 retries.
C11_ErrorStatusNotRetried ==
    ErrorResponseReceived =>
        /\ pc = "idle"
        /\ outcome = Raise("HTTPError", "", response.status_code)
        /\ events[Len(events)] = "post"
        /\ Posts = attempts
        /\ Sleeps = attempts - 1

\* C11 happens: a 400 has arrived on the resend after a 429, while the
\* retry budget would have allowed another resend
C11_Witness ==
    /\ response.status_code = 400
    /\ HTTPErrorRaised
    /\ events = <<"post", "sleep", "post">>
    /\ attempts <= self.max_retries + 1

\* a step in which session.post was called and gave no response: it raised
PostRaised ==
    /\ pc = "post"
    /\ events' = Append(events, "post")
    /\ response' = NoResponse

\* C12: a session.post that raises (a transport-level failure) is not
\* retried: the step in which it raises ends the notify call with that
\* exception, and a call that ended with it has made the failed post as its
\* last call, with no time.sleep and no session.post after it, and has slept
\* only before its resends; on the first attempt as on a resend after a 429.
C12_TransportFailureNotRetried ==
    /\ [][PostRaised =>
            (pc' = "idle" /\ outcome' = Raise("RequestException", "", 0))]_vars
    /\ [](outcome.exc = "RequestException" =>
            /\ Ended
            /\ outcome.kind = "Raise"
            /\ events[Len(events)] = "post"
            /\ Posts = attempts
            /\ Sleeps = attempts - 1)

\* C12 happens: the resend after a 429 has raised, while the retry budget
\* would have allowed another resend
C12_Witness ==
    /\ Ended
    /\ outcome.exc = "RequestException"
    /\ events = <<"post", "sleep", "post">>
    /\ attempts <= self.max_retries + 1

C14_ClosesOnlyOwnSession ==
    /\ self.owns_session = IsNone(args.session)
    /\ self.session = (IF IsNone(args.session) THEN OwnSession ELSE CallerSession)
    /\ session_closed = (closed /\ IsNone(args.session))

\* C14 happens: a client constructed with the caller's session has been
\* closed after a notify call that raised, and the session is open
C14_Witness ==
    /\ args.session = CallerSession
    /\ closed
    /\ outcome.kind = "Raise"
    /\ ~session_closed

\* len(v or "") of a str | None
LenOf(v) == IF IsStr(v) THEN Len(v.str) ELSE 0

\* the constraints on a webhook payload that p violates, each by the
\* message that names it
Violations(p) ==
    {m \in {"Discord notification requires content or embeds",
             "Content exceeds Discord limit of 2000 characters",
             "Username exceeds Discord limit of 80 characters",
             "Avatar URL exceeds Discord length limit",
             "Discord allows a maximum of 10 embeds",
             "Embed description exceeds Discord limit of 4096 characters",
             "Embed color must be between 0x000000 and 0xFFFFFF",
             "Discord allows a maximum of 25 embed fields",
             "Embed field name is required",
             "Embed field value is required",
             "Embed field name exceeds Discord limit of 256 characters",
             "Embed field value exceeds Discord limit of 1024 characters"} :
        LET E == {p.embeds[i] : i \in 1..Len(p.embeds)}
            F == UNION {{e.fields[j] : j \in 1..Len(e.fields)} : e \in E}
        IN  CASE m = "Discord notification requires content or embeds" ->
                    LenOf(p.content) = 0 /\ Len(p.embeds) = 0
              [] m = "Content exceeds Discord limit of 2000 characters" ->
                    LenOf(p.content) > 2000
              [] m = "Username exceeds Discord limit of 80 characters" ->
                    LenOf(p.username) > 80
              [] m = "Avatar URL exceeds Discord length limit" ->
                    LenOf(p.avatar_url) > 2048
              [] m = "Discord allows a maximum of 10 embeds" ->
                    Len(p.embeds) > 10
              [] m = "Embed description exceeds Discord limit of 4096 characters" ->
                    \E e \in E : LenOf(e.description) > 4096
              [] m = "Embed color must be between 0x000000 and 0xFFFFFF" ->
                    \E e \in E : IsNum(e.color) /\ (e.color.num < 0 \/ e.color.num > 16777215)
              [] m = "Discord allows a maximum of 25 embed fields" ->
                    \E e \in E : Len(e.fields) > 25
              [] m = "Embed field name is required" ->
                    \E f \in F : LenOf(f.name) = 0
              [] m = "Embed field value is required" ->
                    \E f \in F : LenOf(f.value) = 0
              [] m = "Embed field name exceeds Discord limit of 256 characters" ->
                    \E f \in F : LenOf(f.name) > 256
              [] m = "Embed field value exceeds Discord limit of 1024 characters" ->
                    \E f \in F : LenOf(f.value) > 1024}

\* C15: a notify call whose payload violates none of the constraints (so
\* also one that is exactly at a limit: username of 80 characters, 10
\* embeds, content of 2000, avatar URL of 2048, description of 4096, 25
\* fields, field name of 256, field value of 1024, colour 0 or 0xFFFFFF)
\* does not end with the validation error, and a call whose payload violates
\* exactly one constraint (one past a limit) ends with the ValueError whose
\* message names that constraint.
C15_LimitsAreInclusive ==
    Ended =>
        /\ Violations(payload) = {} => ~ValidationFailed
        /\ \A m \in Violations(payload) :
              Violations(payload) = {m} => outcome = Raise("ValueError", m, 0)

\* C15 happens: a notification with a username of exactly 80 characters has
\* been posted
C15_Witness ==
    /\ LenOf(data.username) = 80
    /\ Ended
    /\ Len(requests) = 1
    /\ LenOf(requests[1].json.username) = 80

\* the body of response r is a JSON object with a retry_after that is a
\* number above 0
BodyHint(r) ==
    /\ r.body.kind = "dict"
    /\ ~IsAbsent(r.body.retry_after)
    /\ Float(r.body.retry_after).ok
    /\ Float(r.body.retry_after).val > 0

\* response r has a Retry-After header that is a number
HeaderHint(r) ==
    /\ IsStr(r.headers.Retry_After)
    /\ Float(r.headers.Retry_After).ok

\* the delay the priority order gives for response r
DelayByPriority(r) ==
    IF BodyHint(r) THEN Float(r.body.retry_after).val
    ELSE IF HeaderHint(r) THEN Float(r.headers.Retry_After).val
    ELSE 1

\* C16: the delay about to be slept after a 429 is the body's retry_after
\* when that is present, a number and above 0, otherwise the Retry-After
\* header when that is present and a number, otherwise 1; and a 429 received
\* within the retry budget always reaches time.sleep with that delay: a
\* missing, malformed or non-positive retry_after and a missing or
\* unparseable header do not end the call (it ends before the resend only
\* when time.sleep itself refuses a negative header value).
C16_DelayByPriority ==
    /\ pc = "sleep" => retry_after = DelayByPriority(response)
    /\ (response.status_code = RATE_LIMITED /\ attempts <= self.max_retries + 1) =>
          \/ pc = "sleep"
          \/ /\ Ended
             /\ events[Len(events)] = "sleep"
             /\ outcome = Raise("ValueError", SleepError, 0)
             /\ ~BodyHint(response)
             /\ HeaderHint(response)
             /\ DelayByPriority(response) < 0

\* C16 happens: a 429 with the malformed retry_after "abc" and the header
\* "3" is about to be followed by a sleep of 3
C16_Witness ==
    /\ pc = "sleep"
    /\ response.body = [kind |-> "dict", retry_after |-> Str("abc")]
    /\ response.headers.Retry_After = Str("3")
    /\ retry_after = 3

\* C17: every session.post of a notify call is given the same request: the
\* client's url, the payload prepared from the notification before the
\* first send, and a wait parameter that is present and carries the value
\* of the flag the client was constructed with, false included.
C17_IdenticalRequests ==
    \A i \in 1..Len(requests) :
        /\ requests[i].url = self.url
        /\ requests[i].json = PreparePayload(self, data)
        /\ DOMAIN requests[i].params = {"wait"}
        /\ requests[i].params.wait = args.wait
        /\ requests[i].timeout = args.timeout
        /\ requests[i] = requests[1]

\* C17 happens: a client constructed with wait=False has posted, slept and
\* posted again
C17_Witness ==
    /\ args.wait = FALSE
    /\ Len(requests) >= 2
    /\ events[Len(events)] = "post"

\* a step in which a notify call enters _post_with_retry
CallStarts == pc = "idle" /\ pc' = "post"

\* C18: notify calls share no state: every call that posts starts with the
\* attempt counter at zero, whatever the call before it did (also when that
\* one used up its retry budget), so the counter is the number of posts of
\* the current call and a call that runs out of budget has made all of its
\* max_retries + 2 posts itself; and no step changes the client's
\* configuration (url, default username and avatar URL, wait, timeout,
\* max_retries, session and its ownership), which stays as constructed.
C18_CallsShareNoState ==
    /\ [][CallStarts => (attempts' = 0 /\ events' = <<>> /\ requests' = <<>>)]_vars
    /\ [][self' = self /\ args' = args]_vars
    /\ [](self = Construct(args))
    /\ [](attempts = Posts)
    /\ []((HTTPErrorRaised /\ outcome.status_code = RATE_LIMITED) =>
             Posts = self.max_retries + 2)

\* C18 happens: a call has used up its retry budget on a client that has
\* also been closed, and the client is as it was constructed; the next call
\* starts from here
C18_Witness ==
    /\ HTTPErrorRaised
    /\ outcome.status_code = RATE_LIMITED
    /\ attempts = self.max_retries + 2
    /\ closed
    /\ self = Construct(args)

C20_EmittedPayloadsAreValid ==
    \A p \in Emitted : Violations(p) = {}

\* C20 happens: a client configured with a default username of 81
\* characters has rejected a notification without a username, and has sent
\* and logged nothing
C20_Witness ==
    /\ LenOf(args.default_username) = 81
    /\ ~Truthy(data.username)
    /\ Ended
    /\ outcome = Raise("ValueError", "Username exceeds Discord limit of 80 characters", 0)
    /\ Emitted = {}

\* the fields of the caller's notification
FieldsOf(d) ==
    UNION {{d.embeds[i].fields[j] : j \in 1..Len(d.embeds[i].fields)} :
              i \in 1..Len(d.embeds)}

\* C21: no notify call ends with the error "Embed field value is
\* required", and a call whose notification has a named field with a value
\* of None or "" and whose payload violates no other constraint does not
\* end with the validation error: the field goes out with the value "-".
C21_MissingValueNeverRaised ==
    /\ outcome.msg # "Embed field value is required"
    /\ (/\ Ended
        /\ \E f \in FieldsOf(data) : Truthy(f.name) /\ ~Truthy(f.value)
        /\ Violations(payload) \subseteq {"Embed field value is required"}) =>
            /\ ~ValidationFailed
            /\ \A p \in Emitted : \A f \in FieldsOf(p) : Truthy(f.value)

\* C21 happens: a notification with a named field whose value is None and
\* one whose value is "" has been posted, both with the value "-"
C21_Witness ==
    /\ \E f \in FieldsOf(data) : Truthy(f.name) /\ f.value = None
    /\ \E f \in FieldsOf(data) : Truthy(f.name) /\ f.value = Str("")
    /\ Ended
    /\ Len(requests) >= 1
    /\ \E f \in FieldsOf(requests[1].json) : f.name = Str("Key") /\ f.value = Str("-")
    /\ \E f \in FieldsOf(requests[1].json) : f.name = Str("ID") /\ f.value = Str("-")

\* C22: the delay about to be handed to time.sleep is never negative, and
\* no notify call ends with the ValueError of time.sleep.
C22_DelayNonNegative ==
    /\ pc = "sleep" => retry_after >= 0
    /\ ~(Ended /\ outcome = Raise("ValueError", SleepError, 0))

====
